---- MODULE Spec2Model ----
(***************************************************************************)
(* A model of claat/fetch.go: the retrying GET (retryGet), the concurrent  *)
(* import resolution of slurpCodelab and the concurrent image download of  *)
(* downloadImages.                                                         *)
(*                                                                         *)
(* One "main" control flow runs the operation under study; the goroutines  *)
(* it starts are the workers 1..nw.  Every call of retryGet is a call      *)
(* record that RetryIter advances by one iteration of the loop.            *)
(***************************************************************************)
EXTENDS Integers, Sequences, FiniteSets, TLC

\* ---------------------------------------------------------------- bounds
\* largest max_retries the stand-alone retryGet call is explored with
MaxRetries == 2
\* largest number of imports of a codelab / images of a download
MaxWorkers == 2
\* width in bits of the significand of a float64 of the model (53 in Go)
MantissaBits == 4
\* longest string gdocID is called with, in pieces
MaxURLLen == 7
\* largest number of minutes of a duration annotation
MaxMinutes == 3
\* largest number of top-level elements of a parsed document
MaxDocLen == 5

\* ------------------------------------------------------ program constants
StatusOK == 200
StatusInternalServerError == 500
RetriesRemoteFile == 3
RetriesDriveFile == 7
RetriesImage == 5

VARIABLES
  op,       \* the operation main runs: "retryGet", "slurpCodelab", "downloadImages"
  mpc,      \* main's position in that operation
  call,     \* the retryGet call of main (op = "retryGet")
  log,      \* what main's retryGet call did so far: its sleeps and GETs, in order
  delay,    \* t of main's latest sleep, in ticks (0 before any)
  ret,      \* what main's operation returned
  nw,       \* number of imports found / of entries of imap
  spawned,  \* the workers started so far (go func ...)
  wpc,      \* each worker's position
  wval,     \* the value a worker is about to send on ch
  nodes,    \* ImportNode.Content.Nodes of each import
  files,    \* the files written under dir by the image workers
  ch,       \* the buffered contents of the results channel
  chCap,    \* its capacity
  chClosed, \* whether close(ch) has run
  taken,    \* number of results main has received from ch
  panicked, \* the process died of a run-time panic
  src,      \* the argument of the operation and what its system calls yield
  reqs,     \* the retryGet calls fetch made so far, in order
  meta,     \* the file metadata fetchDriveFile decoded
  ds        \* the state of the parser's walk over the document

vars == <<op, mpc, call, log, delay, ret, nw, spawned, wpc, wval,
          nodes, files, ch, chCap, chClosed, taken, panicked,
          src, reqs, meta, ds>>

mainVars == <<op, mpc, call, log, delay, ret>>
batchVars == <<nw, spawned, wpc, wval, nodes, files, ch, chCap,
               chClosed, taken, panicked>>
auxVars == <<src, reqs, meta, ds>>

\* --------------------------------------------------------- HTTP exchanges
\* Statuses a server answers with: OK, another 2xx, a client error, a server error.
Statuses == {200, 204, 404, 500}

\* The error reason a response body decodes to (error.errors[].reason);
\* "" when the body is no API error payload or names another reason.
Reasons == {"", "rateLimitExceeded", "userRateLimitExceeded"}

\* What one client.Get yields: a network-level error (no response), or a
\* response with a status and a body.
Outcomes ==
  {[neterr |-> TRUE, status |-> 0, reason |-> ""]} \cup
  {[neterr |-> FALSE, status |-> s, reason |-> r] : s \in Statuses, r \in Reasons}

\* One second in ticks.  A tick is the step of rand.Float64() below 1: a
\* float64 in [1/2, 1) is a multiple of 2^-MantissaBits.
Ticks == 2 ^ MantissaBits

\* rand.Float64() in [0,1), in ticks: 0 and the largest float64 below 1.
Jitters == {0, Ticks - 1}

\* ------------------------------------------------------------ error values
\* An error is its message, a sequence of tokens: literal text, a URL, a number.
Lit(s) == [lit |-> s]
Url(u) == [url |-> u]
Num(k) == [num |-> k]

NoValue == [kind |-> "none"]
Nil == [kind |-> "nil"]
Err(msg) == [kind |-> "err", msg |-> msg]
Resp(attempt, status) == [kind |-> "resp", attempt |-> attempt, status |-> status]

IsErr(v) == v.kind = "err"

\* fmt.Errorf("fetch %s: %s; %s", url, res.Status, b)
StatusErr(url, status) ==
  Err(<<Lit("fetch"), Url(url), Num(status), Lit("body")>>)

\* fmt.Errorf("%s: failed after %d retries", url, n)
ExhaustedErr(url, n) ==
  Err(<<Url(url), Lit("failed after"), Num(n), Lit("retries")>>)

\* fmt.Errorf("%s: %v", n.URL, err)
WrapErr(url, e) == Err(<<Url(url)>> \o e.msg)

\* whether the message of v names the URL u
Mentions(v, u) == IsErr(v) /\ \E k \in 1..Len(v.msg) : v.msg[k] = Url(u)

\* ---------------------------------------------------------------- retryGet
\* math.Pow(2, float64(i))
Pow2(i) == 2 ^ i

\* the distance, in ticks, between the float64 values around x ticks: a
\* significand of MantissaBits bits
RECURSIVE Ulp(_)
Ulp(x) == IF x < Ticks THEN 1 ELSE 2 * Ulp(x \div 2)

\* the float64 nearest to x ticks, ties to the even significand: the result
\* of a float64 addition whose exact sum is x
RoundFloat(x) ==
  LET u == Ulp(x)
      q == x \div u
      r == x % u
  IN  IF 2 * r < u THEN q * u
      ELSE IF 2 * r > u THEN (q + 1) * u
      ELSE IF q % 2 = 0 THEN q * u
      ELSE (q + 1) * u

\* a mutant of Backoff: the exponent counts the retries from zero
BackoffFromZero(i, jitter) == RoundFloat(Pow2(i - 1) * Ticks + jitter)

\* t of the sleep before attempt i, in ticks: the float64 sum of 2^i and the
\* jitter; the product with float64(time.Second) and the conversion to
\* time.Duration keep the order and take whole seconds to whole seconds
Backoff(i, jitter) == RoundFloat(Pow2(i) * Ticks + jitter)

\* a mutant of RetryLoop: the loop runs n times, not n+1
RetryLoopOffByOne(c) ==
  IF c.i < c.n
    THEN c
    ELSE [c EXCEPT !.pc = "done", !.res = ExhaustedErr(c.url, c.n)]

\* the for-loop condition i <= n, and the fall-through after the loop
RetryLoop(c) ==
  IF c.i <= c.n
    THEN c
    ELSE [c EXCEPT !.pc = "done", !.res = ExhaustedErr(c.url, c.n)]

\* retryGet(client, url, n) on entry
RetryCall(url, n) ==
  RetryLoop([url |-> url, n |-> n, i |-> 0, gets |-> 0, sleeps |-> 0,
             pc |-> "loop", res |-> NoValue])

\* a mutant of IsRateLimit: the per-user reason is not recognised
IsRateLimitProjectOnly(out) == out.reason = "rateLimitExceeded"

\* the rate-limit test of a response: a reason of a rate-limit kind in the body
IsRateLimit(out) ==
  out.reason = "rateLimitExceeded" \/ out.reason = "userRateLimitExceeded"

\* a mutant of IsNetErr: the error of client.Get is not looked at
IsNetErrIgnored(out) == FALSE

\* "if err != nil { continue }": the GET failed at the network level
IsNetErr(out) == out.neterr

\* a mutant of IsGood: the body is decoded before the status is looked at
IsGoodUnlessReason(out) ==
  ~out.neterr /\ out.status = StatusOK /\ out.reason = ""

\* a mutant of IsGood: every 2xx status is a good response
IsGoodAny2xx(out) == ~out.neterr /\ out.status \in 200..299

\* "return early with a good response"
IsGood(out) == ~out.neterr /\ out.status = StatusOK

\* a mutant of IsFatal: only statuses below 400 are given up on
IsFatalBelow400(out) == ~IsRateLimit(out) /\ out.status < 400

\* "this is neither a rate limit error, nor a server error: retrying is useless"
IsFatal(out) == ~IsRateLimit(out) /\ out.status < StatusInternalServerError

\* the sleep at the top of iteration i
RetrySleeps(c) == c.i > 0

\* One iteration of the loop of call c, whose client.Get yields out.
RetryIter(c, out) ==
  LET slept == IF RetrySleeps(c) THEN c.sleeps + 1 ELSE c.sleeps
      got == [c EXCEPT !.sleeps = slept, !.gets = c.gets + 1]
  IN  IF IsGood(out)
        THEN [got EXCEPT !.pc = "done", !.res = Resp(c.i, out.status)]
      ELSE IF IsNetErr(out)
        THEN RetryLoop([got EXCEPT !.i = c.i + 1])
      ELSE IF IsFatal(out)
        THEN [got EXCEPT !.pc = "done", !.res = StatusErr(c.url, out.status)]
      ELSE RetryLoop([got EXCEPT !.i = c.i + 1])

\* what the iteration adds to the log: the sleep, if any, then the GET
IterLog(c, out) ==
  (IF RetrySleeps(c) THEN <<[ev |-> "sleep", i |-> c.i]>> ELSE <<>>)
  \o <<[ev |-> "get", i |-> c.i, out |-> out]>>

Workers == 1..MaxWorkers
Active == 1..nw

NotSent == [kind |-> "notsent"]
\* Content.Nodes of an import that was not resolved
NoNodes == [kind |-> "empty"]
IdleCall == [url |-> "", n |-> 0, i |-> 0, gets |-> 0, sleeps |-> 0,
             pc |-> "idle", res |-> NoValue]

\* the URL under test of the stand-alone call
TestURL == "http://example.com/a"

InitBatch ==
  /\ nw = 0
  /\ spawned = {}
  /\ wpc = [w \in Workers |-> "idle"]
  /\ wval = [w \in Workers |-> NoValue]
  /\ nodes = [w \in Workers |-> NoNodes]
  /\ files = {}
  /\ ch = <<>>
  /\ chCap = 0
  /\ chClosed = FALSE
  /\ taken = 0
  /\ panicked = FALSE

\* no argument, no request, no metadata, no parser state
InitAux ==
  /\ src = NoValue
  /\ reqs = <<>>
  /\ meta = NoValue
  /\ ds = NoValue

\* ------------------------------------------------- retryGet, stand-alone
InitRetryGet ==
  /\ op = "retryGet"
  /\ mpc = "call"
  /\ \E n \in 0..MaxRetries : call = RetryCall(TestURL, n)
  /\ log = <<>>
  /\ delay = 0
  /\ ret = NoValue
  /\ InitBatch
  /\ InitAux

\* one iteration of main's call
RetryGetIter ==
  /\ op = "retryGet" /\ mpc = "call" /\ call.pc = "loop"
  /\ \E out \in Outcomes, jitter \in Jitters :
       /\ call' = RetryIter(call, out)
       /\ log' = log \o IterLog(call, out)
       /\ delay' = IF RetrySleeps(call) THEN Backoff(call.i, jitter) ELSE delay
  /\ UNCHANGED <<op, mpc, ret>>
  /\ UNCHANGED auxVars
  /\ UNCHANGED batchVars

\* the call returns to its caller
RetryGetReturn ==
  /\ op = "retryGet" /\ mpc = "call" /\ call.pc = "done"
  /\ ret' = call.res
  /\ mpc' = "done"
  /\ UNCHANGED <<op, call, log, delay>>
  /\ UNCHANGED auxVars
  /\ UNCHANGED batchVars

NextRetryGet == RetryGetIter \/ RetryGetReturn

SpecRetryGet == InitRetryGet /\ [][NextRetryGet]_vars

\* the call is scheduled until it returns
FairRetryGet == SpecRetryGet /\ WF_vars(NextRetryGet)

\* --------------------------------------------- retryGet, run as one call
\* the call c run on the attempt outcomes seq, until it returns
RECURSIVE RetryRun(_, _)
RetryRun(c, seq) ==
  IF c.pc = "done" \/ seq = <<>>
    THEN c
    ELSE RetryRun(RetryIter(c, Head(seq)), Tail(seq))

\* what retryGet(client, url, n) returns when its attempts yield seq
RetryGet(url, n, seq) == RetryRun(RetryCall(url, n), seq).res

\* k times the outcome out
RECURSIVE Rep(_, _)
Rep(out, k) == IF k = 0 THEN <<>> ELSE <<out>> \o Rep(out, k - 1)

\* the failures a server keeps answering with before the answer changes
Transient ==
  {[neterr |-> TRUE, status |-> 0, reason |-> ""],
   [neterr |-> FALSE, status |-> 500, reason |-> ""],
   [neterr |-> FALSE, status |-> 404, reason |-> "userRateLimitExceeded"]}

\* the outcome sequences a worker's call is run on: k times a transient
\* failure, then one outcome for every attempt that remains
AttemptSeqs(n) ==
  {Rep(pre, k) \o Rep(last, n + 1 - k) :
     pre \in Transient, k \in 0..n, last \in Outcomes}

\* ------------------------------------------------------------------ URLs
\* The URL of import w (types.ImportNode.URL) or of image w (imap[name]):
\* a bare document id, a URL of another host, a malformed URL, a URL of the
\* document host; doc tells the units of work apart.
UnitURL(w) ==
  CASE (w - 1) % 4 = 0 -> [host |-> "", kind |-> "id", doc |-> w]
    [] (w - 1) % 4 = 1 -> [host |-> "example.com", kind |-> "file", doc |-> w]
    [] (w - 1) % 4 = 2 -> [host |-> "", kind |-> "malformed", doc |-> w]
    [] OTHER -> [host |-> "docs.google.com", kind |-> "doc", doc |-> w]

\* the source URL of image w: some URL of another host
ImageURL(w) == [host |-> "example.com", kind |-> "image", doc |-> w]

\* driveAPIExport?id=<gdocID(url)>&exportFormat=html
ExportURL(u) == [host |-> "docs.google.com", kind |-> "export", doc |-> u.doc]

\* filepath.Join(dir, name) of image w
File(w) == [file |-> w]

\* the file slurpBytes writes for image w: its name, and the URL its bytes
\* were read from
Written(w) == [name |-> File(w), from |-> ImageURL(w)]

\* the nodes parsed from the fragment at u
Frag(u) == [kind |-> "frag", of |-> u]

\* fetchRemoteFile(url), for its error
FetchRemoteFile(u, seq) == RetryGet(u, RetriesRemoteFile, seq)

\* fetchDriveFile(id, true), for its error
FetchDriveFileNoMeta(u, clientOK, seq) ==
  IF ~clientOK
    THEN Err(<<Lit("drive client")>>)
    ELSE RetryGet(ExportURL(u), RetriesDriveFile, seq)

\* fetchRemote(urlStr, true), for its error
FetchRemoteNoMeta(u, clientOK, seq) ==
  IF u.kind = "malformed"
    THEN Err(<<Lit("parse"), Url(u), Lit("invalid URL")>>)
  ELSE IF u.host = "" \/ u.host = "docs.google.com"
    THEN FetchDriveFileNoMeta(u, clientOK, seq)
  ELSE FetchRemoteFile(u, seq)

\* the retry count of the call fetchRemote(u, true) ends in
FetchRetries(u) ==
  IF u.host = "" \/ u.host = "docs.google.com"
    THEN RetriesDriveFile
    ELSE RetriesRemoteFile

\* slurpFragment(url): the parsed nodes, or the error
SlurpFragment(u, clientOK, seq, parseOK) ==
  LET res == FetchRemoteNoMeta(u, clientOK, seq)
  IN  IF IsErr(res) THEN res
      ELSE IF ~parseOK THEN Err(<<Lit("parse fragment")>>)
      ELSE Frag(u)

\* everything slurpFragment can return for import w, over the outcomes of
\* driveClient, of the attempts of retryGet and of parser.ParseFragment
ImportRuns ==
  [w \in Workers |->
     {SlurpFragment(UnitURL(w), clientOK, seq, parseOK) :
        clientOK \in BOOLEAN, parseOK \in BOOLEAN,
        seq \in AttemptSeqs(FetchRetries(UnitURL(w)))}]

\* what the import worker sends: the wrapped error, or nil
ImportResult(u, frag) == IF IsErr(frag) THEN WrapErr(u, frag) ELSE Nil

\* slurpBytes(client, dst, url, n): nil, or the error
SlurpBytes(dst, u, n, seq, readOK, writeOK) ==
  LET res == RetryGet(u, n, seq)
  IN  IF IsErr(res) THEN res
      ELSE IF ~readOK THEN Err(<<Lit("unexpected EOF")>>)
      ELSE IF ~writeOK THEN Err(<<Lit("open"), dst, Lit("permission denied")>>)
      ELSE Nil

\* everything slurpBytes can return for image w, over the outcomes of the
\* attempts of retryGet, of ioutil.ReadAll and of ioutil.WriteFile
ImageRuns ==
  [w \in Workers |->
     {SlurpBytes(File(w), ImageURL(w), RetriesImage, seq, readOK, writeOK) :
        readOK \in BOOLEAN, writeOK \in BOOLEAN, seq \in AttemptSeqs(RetriesImage)}]

\* ------------------------------------------------------ the results channel
\* the value worker w has sent on ch
Sent(w) == IF wpc[w] = "done" THEN wval[w] ELSE NotSent

\* a mutant of ChanCap: make(chan error), an unbuffered channel
ChanCapUnbuffered(k) == 0

\* the capacity of make(chan error, k)
ChanCap(k) == k

\* ch <- v goes through when the buffer has room
CanSend(w) == Len(ch) < chCap

\* ch <- wval[w]
ChanSend(w) ==
  /\ ~panicked
  /\ wpc[w] = "send"
  /\ ~chClosed
  /\ CanSend(w)
  /\ ch' = Append(ch, wval[w])
  /\ wpc' = [wpc EXCEPT ![w] = "done"]
  /\ UNCHANGED <<nw, spawned, wval, nodes, files, chCap, chClosed, taken, panicked>>
  /\ UNCHANGED mainVars
  /\ UNCHANGED auxVars

\* ch <- wval[w] on the closed channel: "panic: send on closed channel"
ChanSendClosed(w) ==
  /\ ~panicked
  /\ wpc[w] = "send"
  /\ chClosed
  /\ panicked' = TRUE
  /\ wpc' = [wpc EXCEPT ![w] = "panicked"]
  /\ UNCHANGED <<nw, spawned, wval, nodes, files, ch, chCap, chClosed, taken>>
  /\ UNCHANGED mainVars
  /\ UNCHANGED auxVars

\* a mutant of RecvFails: the error received is dropped
RecvFailsNever(v) == FALSE

\* "if err := <-ch; err != nil"
RecvFails(v) == IsErr(v)

\* a mutant of Unit: the goroutine reads the variables of the loop when it
\* runs, and finds the unit of the latest iteration
UnitLoopVar(w) == Cardinality(spawned)

\* the unit of work goroutine w was handed as its argument: "}(imp)" and
\* "}(name, url)"
Unit(w) == w

\* a mutant of Collected: the collecting loop stops one receive short
CollectedButOne(k) == k >= nw - 1

\* the collecting loop "for _ = range imports" (and "range imap") has run
\* once per unit of work after k receives
Collected(k) == k = nw

\* ------------------------------------------------------------ slurpCodelab
InitSlurp ==
  /\ op = "slurpCodelab"
  /\ mpc = "load"
  /\ call = IdleCall
  /\ log = <<>>
  /\ delay = 0
  /\ ret = NoValue
  /\ InitBatch
  /\ InitAux

\* fetch(src), parser.Parse, the imports of the steps, make(chan error, len(imports))
SlurpLoad ==
  /\ ~panicked
  /\ op = "slurpCodelab" /\ mpc = "load"
  /\ \/ /\ \E e \in {Err(<<Lit("fetch source")>>), Err(<<Lit("parse source")>>)} :
             ret' = e
        /\ mpc' = "done"
        /\ UNCHANGED <<nw, chCap>>
     \/ /\ \E k \in 0..MaxWorkers : nw' = k /\ chCap' = ChanCap(k)
        /\ mpc' = "spawn"
        /\ UNCHANGED ret
  /\ UNCHANGED <<op, call, log, delay>>
  /\ UNCHANGED auxVars
  /\ UNCHANGED <<spawned, wpc, wval, nodes, files, ch, chClosed, taken, panicked>>

\* go func(n *types.ImportNode) {...}(imp), for the next import
SlurpSpawn ==
  /\ ~panicked
  /\ op = "slurpCodelab" /\ mpc = "spawn"
  /\ Cardinality(spawned) < nw
  /\ LET w == Cardinality(spawned) + 1
     IN  /\ spawned' = spawned \cup {w}
         /\ wpc' = [wpc EXCEPT ![w] = "run"]
  /\ UNCHANGED mainVars
  /\ UNCHANGED auxVars
  /\ UNCHANGED <<nw, wval, nodes, files, ch, chCap, chClosed, taken, panicked>>

\* one iteration of "for _ = range imports": a receive, and the return on an
\* error, which runs the deferred close(ch)
SlurpRecv ==
  /\ ~panicked
  /\ op = "slurpCodelab" /\ mpc = "spawn"
  /\ spawned = Active /\ ~Collected(taken)
  /\ Len(ch) > 0
  /\ ch' = Tail(ch)
  /\ IF RecvFails(Head(ch))
       THEN /\ ret' = Head(ch)
            /\ mpc' = "done"
            /\ chClosed' = TRUE
            /\ UNCHANGED taken
       ELSE /\ taken' = taken + 1
            /\ UNCHANGED <<ret, mpc, chClosed>>
  /\ UNCHANGED <<op, call, log, delay>>
  /\ UNCHANGED auxVars
  /\ UNCHANGED <<nw, spawned, wpc, wval, nodes, files, chCap, panicked>>

\* "return v, nil" after the loop, which runs the deferred close(ch)
SlurpReturn ==
  /\ ~panicked
  /\ op = "slurpCodelab" /\ mpc = "spawn"
  /\ spawned = Active /\ Collected(taken)
  /\ ret' = [kind |-> "codelab"]
  /\ mpc' = "done"
  /\ chClosed' = TRUE
  /\ UNCHANGED <<op, call, log, delay>>
  /\ UNCHANGED auxVars
  /\ UNCHANGED <<nw, spawned, wpc, wval, nodes, files, ch, chCap, taken, panicked>>

\* the body of the import goroutine up to its send
ImportWork(w) ==
  /\ ~panicked
  /\ op = "slurpCodelab"
  /\ wpc[w] = "run"
  /\ \E frag \in ImportRuns[Unit(w)] :
       /\ wval' = [wval EXCEPT ![w] = ImportResult(UnitURL(Unit(w)), frag)]
       /\ nodes' = [nodes EXCEPT ![Unit(w)] = IF IsErr(frag) THEN @ ELSE frag]
  /\ wpc' = [wpc EXCEPT ![w] = "send"]
  /\ UNCHANGED mainVars
  /\ UNCHANGED auxVars
  /\ UNCHANGED <<nw, spawned, files, ch, chCap, chClosed, taken, panicked>>

NextSlurp ==
  \/ SlurpLoad
  \/ SlurpSpawn
  \/ SlurpRecv
  \/ SlurpReturn
  \/ \E w \in Workers : ImportWork(w)
  \/ \E w \in Workers : ChanSend(w)
  \/ \E w \in Workers : ChanSendClosed(w)

SpecSlurp == InitSlurp /\ [][NextSlurp]_vars

\* ---------------------------------------------------------- downloadImages
InitImages ==
  /\ op = "downloadImages"
  /\ mpc = "start"
  /\ call = IdleCall
  /\ log = <<>>
  /\ delay = 0
  /\ ret = NoValue
  /\ InitAux
  /\ \E k \in 0..MaxWorkers :
       /\ nw = k
       /\ spawned = {}
       /\ wpc = [w \in Workers |-> "idle"]
       /\ wval = [w \in Workers |-> NoValue]
       /\ nodes = [w \in Workers |-> NoNodes]
       /\ files = {}
       /\ ch = <<>>
       /\ chCap = 0
       /\ chClosed = FALSE
       /\ taken = 0
       /\ panicked = FALSE

\* len(imap) == 0, os.MkdirAll, make(chan error, len(imap))
ImagesStart ==
  /\ op = "downloadImages" /\ mpc = "start"
  /\ IF nw = 0
       THEN ret' = Nil /\ mpc' = "done" /\ UNCHANGED chCap
       ELSE \/ ret' = Err(<<Lit("mkdir")>>) /\ mpc' = "done" /\ UNCHANGED chCap
            \/ chCap' = ChanCap(nw) /\ mpc' = "spawn" /\ UNCHANGED ret
  /\ UNCHANGED <<op, call, log, delay>>
  /\ UNCHANGED auxVars
  /\ UNCHANGED <<nw, spawned, wpc, wval, nodes, files, ch, chClosed, taken, panicked>>

\* go func(name, url string) {...}(name, url), in the order the map yields
ImagesSpawn ==
  /\ op = "downloadImages" /\ mpc = "spawn"
  /\ \E w \in Active \ spawned :
       /\ spawned' = spawned \cup {w}
       /\ wpc' = [wpc EXCEPT ![w] = "run"]
  /\ UNCHANGED mainVars
  /\ UNCHANGED auxVars
  /\ UNCHANGED <<nw, wval, nodes, files, ch, chCap, chClosed, taken, panicked>>

\* one iteration of "for _ = range imap": a receive, and the return on an error
ImagesRecv ==
  /\ op = "downloadImages" /\ mpc = "spawn"
  /\ spawned = Active /\ ~Collected(taken)
  /\ Len(ch) > 0
  /\ ch' = Tail(ch)
  /\ IF RecvFails(Head(ch))
       THEN /\ ret' = Head(ch)
            /\ mpc' = "done"
            /\ UNCHANGED taken
       ELSE /\ taken' = taken + 1
            /\ UNCHANGED <<ret, mpc>>
  /\ UNCHANGED <<op, call, log, delay>>
  /\ UNCHANGED auxVars
  /\ UNCHANGED <<nw, spawned, wpc, wval, nodes, files, chCap, chClosed, panicked>>

\* "return nil" after the loop
ImagesReturn ==
  /\ op = "downloadImages" /\ mpc = "spawn"
  /\ spawned = Active /\ Collected(taken)
  /\ ret' = Nil
  /\ mpc' = "done"
  /\ UNCHANGED <<op, call, log, delay>>
  /\ UNCHANGED auxVars
  /\ UNCHANGED batchVars

\* the body of the image goroutine up to its send: slurpBytes
ImageWork(w) ==
  /\ op = "downloadImages"
  /\ wpc[w] = "run"
  /\ \E e \in ImageRuns[Unit(w)] :
       /\ wval' = [wval EXCEPT ![w] = e]
       /\ files' = IF IsErr(e) THEN files ELSE files \cup {Written(Unit(w))}
  /\ wpc' = [wpc EXCEPT ![w] = "send"]
  /\ UNCHANGED mainVars
  /\ UNCHANGED auxVars
  /\ UNCHANGED <<nw, spawned, nodes, ch, chCap, chClosed, taken, panicked>>

ImagesMain == ImagesStart \/ ImagesSpawn \/ ImagesRecv \/ ImagesReturn

ImageWorker(w) == ImageWork(w) \/ ChanSend(w)

NextImages ==
  \/ ImagesStart
  \/ ImagesSpawn
  \/ ImagesRecv
  \/ ImagesReturn
  \/ \E w \in Workers : ImageWork(w)
  \/ \E w \in Workers : ChanSend(w)

SpecImages == InitImages /\ [][NextImages]_vars

\* every goroutine that can take a step is scheduled
FairImages ==
  /\ SpecImages
  /\ WF_vars(ImagesMain)
  /\ \A w \in Workers : WF_vars(ImageWorker(w))

\* ------------------------------------------------------------------- fetch
srcGoogleDoc == "gdoc"
srcMarkdown == "md"
driveMimeDocument == "application/vnd.google-apps.document"
driveMimeFolder == "application/vnd.google-apps.folder"

\* the identifiers fetch and fetchRemote are called with: a bare document
\* id, a URL of another host, a malformed URL, a URL of the document host
Identifiers == {UnitURL(w) : w \in 1..4}

\* what os.Stat(name) yields: a FileInfo, an error that os.IsNotExist
\* recognises, another error (and no FileInfo)
StatResults == {"ok", "notexist", "error"}

\* what os.Open(name) yields: a file, or an error
OpenResults == {"ok", "error"}

\* the time values a resource can carry as mod
FileModTime == [time |-> "fi.ModTime()"]
HeaderTime == [time |-> "last-modified"]
NowTime == [time |-> "time.Now()"]
MetaModified == [time |-> "meta.Modified"]
ZeroTime == [time |-> "zero"]

\* &resource{body: ..., typ: typ, mod: mod}
Resource(typ, mod) == [kind |-> "resource", typ |-> typ, mod |-> mod]

\* driveAPIBase/files/<gdocID(id)>?fields=id,mimeType,exportLinks,modifiedDate
MetaURL(u) == [host |-> "www.googleapis.com", kind |-> "meta", doc |-> u.doc]

\* meta.ExportLinks[driveExportMime] of the document of u, and the empty link
ExportLink(u) == [host |-> "docs.google.com", kind |-> "exportlink", doc |-> u.doc]
NoLink == [host |-> "", kind |-> "nolink", doc |-> 0]

\* what the metadata of the document of u can decode to
Metas(u) ==
  {[mime |-> m, link |-> l, modified |-> MetaModified] :
     m \in {driveMimeDocument, driveMimeFolder}, l \in {NoLink, ExportLink(u)}}

\* the retryGet calls fetch can make: the URL and the retry count
Requests ==
  UNION {{[url |-> u, n |-> RetriesRemoteFile],
          [url |-> MetaURL(u), n |-> RetriesDriveFile],
          [url |-> ExportURL(u), n |-> RetriesDriveFile],
          [url |-> ExportLink(u), n |-> RetriesDriveFile]} : u \in Identifiers}

\* everything retryGet(client, r.url, r.n) can return, over the outcomes of
\* its attempts
FetchRuns ==
  [r \in Requests |-> {RetryGet(r.url, r.n, seq) : seq \in AttemptSeqs(r.n)}]

\* the record of one retryGet call in reqs
Request(url, n, res) == [url |-> url, n |-> n, res |-> res]

\* a mutant of IsNotExist: every identifier is taken for a remote one
IsNotExistAlways(st) == TRUE

\* os.IsNotExist(err) of the error of os.Stat
IsNotExist(st) == st = "notexist"

\* a mutant of IsDriveHost: only an identifier without host is a document
IsDriveHostNoHostOnly(u) == u.host = ""

\* u.Host == "" || u.Host == "docs.google.com"
IsDriveHost(u) == u.host = "" \/ u.host = "docs.google.com"

\* a mutant of NeedsMeta: the metadata is fetched also when nometa is set
NeedsMetaAlways(nometa) == TRUE

\* "if nometa {...}" does not apply: the metadata is fetched first
NeedsMeta(nometa) == ~nometa

\* a mutant of MimeOK: the mime type of the metadata is not checked
MimeOKAny(m) == TRUE

\* meta.MimeType != driveMimeDocument does not hold
MimeOK(m) == m.mime = driveMimeDocument

\* fetch(name), and fetchRemote(url, true) as slurpFragment calls it
InitFetch ==
  /\ op = "fetch"
  /\ \E u \in Identifiers, nometa \in BOOLEAN, st \in StatResults, o \in OpenResults :
       /\ nometa => st = "notexist" /\ o = "error"
       /\ src = [name |-> u, nometa |-> nometa, stat |-> st, open |-> o]
       /\ mpc = IF nometa THEN "fetchRemote" ELSE "fetch"
  /\ call = IdleCall
  /\ log = <<>>
  /\ delay = 0
  /\ ret = NoValue
  /\ reqs = <<>>
  /\ meta = NoValue
  /\ ds = NoValue
  /\ InitBatch

\* the body of fetch: os.Stat, os.Open, the local resource
Fetch ==
  /\ op = "fetch" /\ mpc = "fetch"
  /\ IF IsNotExist(src.stat)
       THEN mpc' = "fetchRemote" /\ UNCHANGED <<ret, panicked>>
     ELSE IF src.open = "error"
       THEN /\ ret' = Err(<<Lit("open"), Url(src.name), Lit("cannot open")>>)
            /\ mpc' = "done"
            /\ UNCHANGED panicked
     ELSE IF src.stat = "ok"
       THEN /\ ret' = Resource(srcMarkdown, FileModTime)
            /\ mpc' = "done"
            /\ UNCHANGED panicked
     ELSE \* fi is nil: fi.ModTime() is a nil dereference
          /\ panicked' = TRUE
          /\ mpc' = "panicked"
          /\ UNCHANGED ret
  /\ UNCHANGED <<op, call, log, delay, src, reqs, meta, ds>>
  /\ UNCHANGED <<nw, spawned, wpc, wval, nodes, files, ch, chCap, chClosed, taken>>

\* the body of fetchRemote: url.Parse and the choice by host
FetchRemote ==
  /\ op = "fetch" /\ mpc = "fetchRemote"
  /\ IF src.name.kind = "malformed"
       THEN /\ ret' = Err(<<Lit("parse"), Url(src.name), Lit("invalid URL")>>)
            /\ mpc' = "done"
     ELSE IF IsDriveHost(src.name)
       THEN mpc' = "fetchDriveFile" /\ UNCHANGED ret
     ELSE mpc' = "fetchRemoteFile" /\ UNCHANGED ret
  /\ UNCHANGED <<op, call, log, delay>>
  /\ UNCHANGED auxVars
  /\ UNCHANGED batchVars

\* the body of fetchRemoteFile: retryGet(nil, url, 3), the last-modified header
FetchRemoteFileGet ==
  /\ op = "fetch" /\ mpc = "fetchRemoteFile"
  /\ \E res \in FetchRuns[[url |-> src.name, n |-> RetriesRemoteFile]],
        mod \in {HeaderTime, NowTime} :
       /\ reqs' = Append(reqs, Request(src.name, RetriesRemoteFile, res))
       /\ ret' = IF IsErr(res) THEN res ELSE Resource(srcMarkdown, mod)
  /\ mpc' = "done"
  /\ UNCHANGED <<op, call, log, delay, src, meta, ds>>
  /\ UNCHANGED batchVars

\* fetchDriveFile up to its choice by nometa: gdocID, driveClient
FetchDriveFile ==
  /\ op = "fetch" /\ mpc = "fetchDriveFile"
  /\ \/ /\ ret' = Err(<<Lit("drive client")>>)
        /\ mpc' = "done"
     \/ /\ mpc' = IF NeedsMeta(src.nometa) THEN "meta" ELSE "exportOnly"
        /\ UNCHANGED ret
  /\ UNCHANGED <<op, call, log, delay>>
  /\ UNCHANGED auxVars
  /\ UNCHANGED batchVars

\* nometa: retryGet(client, driveAPIExport?id=..., 7) and the resource
DriveExportOnly ==
  /\ op = "fetch" /\ mpc = "exportOnly"
  /\ \E res \in FetchRuns[[url |-> ExportURL(src.name), n |-> RetriesDriveFile]] :
       /\ reqs' = Append(reqs, Request(ExportURL(src.name), RetriesDriveFile, res))
       /\ ret' = IF IsErr(res) THEN res ELSE Resource(srcGoogleDoc, ZeroTime)
  /\ mpc' = "done"
  /\ UNCHANGED <<op, call, log, delay, src, meta, ds>>
  /\ UNCHANGED batchVars

\* retryGet(client, .../files/<id>?fields=..., 7) and the decoding of its body
DriveMetaGet ==
  /\ op = "fetch" /\ mpc = "meta"
  /\ \E res \in FetchRuns[[url |-> MetaURL(src.name), n |-> RetriesDriveFile]] :
       /\ reqs' = Append(reqs, Request(MetaURL(src.name), RetriesDriveFile, res))
       /\ IF IsErr(res)
            THEN ret' = res /\ mpc' = "done" /\ UNCHANGED meta
            ELSE \/ /\ ret' = Err(<<Lit("json: cannot decode")>>)
                    /\ mpc' = "done"
                    /\ UNCHANGED meta
                 \/ /\ \E m \in Metas(src.name) : meta' = m
                    /\ mpc' = "check"
                    /\ UNCHANGED ret
  /\ UNCHANGED <<op, call, log, delay, src, ds>>
  /\ UNCHANGED batchVars

\* the mime type check, then the lookup of the export link
DriveMetaCheck ==
  /\ op = "fetch" /\ mpc = "check"
  /\ IF ~MimeOK(meta)
       THEN /\ ret' = Err(<<Num(src.name.doc), Lit("invalid mime type"), Lit(meta.mime)>>)
            /\ mpc' = "done"
     ELSE IF meta.link = NoLink
       THEN /\ ret' = Err(<<Num(src.name.doc), Lit("no export link"), Lit("text/html")>>)
            /\ mpc' = "done"
     ELSE mpc' = "export" /\ UNCHANGED ret
  /\ UNCHANGED <<op, call, log, delay>>
  /\ UNCHANGED auxVars
  /\ UNCHANGED batchVars

\* retryGet(client, link, 7) and the resource
DriveExportGet ==
  /\ op = "fetch" /\ mpc = "export"
  /\ \E res \in FetchRuns[[url |-> meta.link, n |-> RetriesDriveFile]] :
       /\ reqs' = Append(reqs, Request(meta.link, RetriesDriveFile, res))
       /\ ret' = IF IsErr(res) THEN res ELSE Resource(srcGoogleDoc, meta.modified)
  /\ mpc' = "done"
  /\ UNCHANGED <<op, call, log, delay, src, meta, ds>>
  /\ UNCHANGED batchVars

NextFetch ==
  \/ Fetch
  \/ FetchRemote
  \/ FetchRemoteFileGet
  \/ FetchDriveFile
  \/ DriveExportOnly
  \/ DriveMetaGet
  \/ DriveMetaCheck
  \/ DriveExportGet

SpecFetch == InitFetch /\ [][NextFetch]_vars

\* ------------------------------------------------------------------ gdocID
\* A string is the sequence of its pieces: the path separator, the words
\* "document" and "d", and one other word.
Alphabet == {"/", "document", "d", "x"}

\* const s = "/document/d/"
Marker == <<"/", "document", "/", "d", "/">>

\* the strings gdocID is called with
Strings == UNION {[1..k -> Alphabet] : k \in 0..MaxURLLen}

\* strings.Index(s, t): where t first occurs in s, counted from 0, or -1
Index(s, t) ==
  LET at == {i \in 0..(Len(s) - Len(t)) : SubSeq(s, i + 1, i + Len(t)) = t}
  IN  IF at = {} THEN -1 ELSE CHOOSE i \in at : \A j \in at : i <= j

\* strings.IndexRune(s, c): where c first occurs in s, counted from 0, or -1
IndexRune(s, c) ==
  LET at == {i \in 0..(Len(s) - 1) : s[i + 1] = c}
  IN  IF at = {} THEN -1 ELSE CHOOSE i \in at : \A j \in at : i <= j

\* gdocID(url)
GdocID(url) ==
  LET i == Index(url, Marker)
      rest == IF i >= 0 THEN SubSeq(url, i + Len(Marker) + 1, Len(url)) ELSE url
      j == IndexRune(rest, "/")
  IN  IF j > 0 THEN SubSeq(rest, 1, j) ELSE rest

InitGdocID ==
  /\ op = "gdocID"
  /\ mpc = "call"
  /\ src \in Strings
  /\ call = IdleCall
  /\ log = <<>>
  /\ delay = 0
  /\ ret = NoValue
  /\ reqs = <<>>
  /\ meta = NoValue
  /\ ds = NoValue
  /\ InitBatch

\* the call gdocID(src) and its return
GdocIDCall ==
  /\ op = "gdocID" /\ mpc = "call"
  /\ ret' = [kind |-> "id", id |-> GdocID(src)]
  /\ mpc' = "done"
  /\ UNCHANGED <<op, call, log, delay>>
  /\ UNCHANGED auxVars
  /\ UNCHANGED batchVars

NextGdocID == GdocIDCall

SpecGdocID == InitGdocID /\ [][NextGdocID]_vars

\* ------------------------------------------- the parser: duration annotation
\* The text of an annotation is the sequence of its tokens: a word, a run of
\* spaces, a colon, a number.
Word(v) == [t |-> "word", v |-> v]
Space == [t |-> "sp"]
Colon == [t |-> "colon"]
Number(k) == [t |-> "num", n |-> k]

\* the spellings of the keyword, and a word that is not the keyword
Keywords == {"Duration", "duration", "DURATION"}
OtherWord == "Time"

\* the seconds of an M:SS value
Seconds == {0, 1, 30, 59}

\* the keyword in lower case
ToLower(v) == IF v \in Keywords THEN "duration" ELSE v

\* s without the spaces it starts with
RECURSIVE SkipSpaces(_)
SkipSpaces(s) ==
  IF s # <<>> /\ Head(s).t = "sp" THEN SkipSpaces(Tail(s)) ELSE s

\* s starts with a token of type t
StartsWith(s, t) == s # <<>> /\ Head(s).t = t

\* a mutant of RoundUpMinutes: the seconds left over are dropped
RoundDownMinutes(secs) == secs \div 60

\* a duration of secs seconds, rounded up to the next whole minute
RoundUpMinutes(secs) == (secs + 59) \div 60

\* the minutes of the value that the tokens s start with and end after,
\* "M" or "M:SS" and spaces; 0 when they are no such value
ParseValue(s) ==
  IF ~StartsWith(s, "num") THEN 0
  ELSE LET m == Head(s).n
           s1 == Tail(s)
       IN  IF StartsWith(s1, "colon")
             THEN IF StartsWith(Tail(s1), "num") /\ SkipSpaces(Tail(Tail(s1))) = <<>>
                    THEN RoundUpMinutes(60 * m + Head(Tail(s1)).n)
                    ELSE 0
           ELSE IF SkipSpaces(s1) = <<>> THEN RoundUpMinutes(60 * m)
           ELSE 0

\* the minutes of a duration annotation: the keyword in any case, optional
\* spaces, a colon, optional spaces, the value; 0 for a malformed annotation
ParseDuration(s) ==
  IF ~(StartsWith(s, "word") /\ ToLower(Head(s).v) = "duration") THEN 0
  ELSE LET s1 == SkipSpaces(Tail(s))
       IN  IF ~StartsWith(s1, "colon") THEN 0
           ELSE ParseValue(SkipSpaces(Tail(s1)))

\* k spaces
Spaces(k) == [j \in 1..k |-> Space]

\* the annotations the parser is run on: every spelling of the keyword (and
\* another word), with and without spaces around the colon and after the
\* value, with and without the colon, bare minutes and minutes:seconds
Annotations ==
  {[text |-> <<Word(kw)>> \o Spaces(a) \o (IF col THEN <<Colon>> ELSE <<>>)
               \o Spaces(b) \o <<Number(m)>>
               \o (IF ss >= 0 THEN <<Colon, Number(ss)>> ELSE <<>>) \o Spaces(c),
     keyword |-> kw, colon |-> col, m |-> m, ss |-> ss] :
     kw \in Keywords \cup {OtherWord}, a \in 0..1, col \in BOOLEAN, b \in 0..1,
     m \in 0..MaxMinutes, ss \in Seconds \cup {-1}, c \in 0..1}

InitDuration ==
  /\ op = "parseDuration"
  /\ mpc = "call"
  /\ src \in Annotations
  /\ call = IdleCall
  /\ log = <<>>
  /\ delay = 0
  /\ ret = NoValue
  /\ reqs = <<>>
  /\ meta = NoValue
  /\ ds = NoValue
  /\ InitBatch

\* the annotation is parsed and the duration of the step is set
ParseDurationCall ==
  /\ op = "parseDuration" /\ mpc = "call"
  /\ ret' = [kind |-> "duration", minutes |-> ParseDuration(src.text)]
  /\ mpc' = "done"
  /\ UNCHANGED <<op, call, log, delay>>
  /\ UNCHANGED auxVars
  /\ UNCHANGED batchVars

NextDuration == ParseDurationCall

SpecDuration == InitDuration /\ [][NextDuration]_vars

\* ----------------------------------------------- the parser: block indices
\* the top-level elements of a document: a step heading, a code block, a
\* console block, any other content
Elements == {"h1", "code", "console", "text"}

\* the documents the parser is run on
Documents == UNION {[1..k -> Elements] : k \in 0..MaxDocLen}

\* the parser state before the first element: no step, nothing emitted
NewDocState == [pos |-> 0, step |-> 0, blocks |-> 0, out |-> <<>>]

\* a mutant of NewStep: the block counter runs on into the next step
NewStepKeepCount(d) == [d EXCEPT !.step = @ + 1]

\* a step heading: a new step, whose block counter starts over
NewStep(d) == [d EXCEPT !.step = @ + 1, !.blocks = 0]

\* a code or console block: the next block index of the step
NewCode(d, console) ==
  [d EXCEPT !.blocks = @ + 1,
            !.out = Append(@, [step |-> d.step, node |-> "code",
                               console |-> console, block |-> d.blocks + 1])]

\* any other content of a step
NewOther(d) ==
  [d EXCEPT !.out = Append(@, [step |-> d.step, node |-> "other",
                               console |-> FALSE, block |-> 0])]

\* the walk over one top-level element e; content before the first step
\* heading is discarded
ParseElement(d, e) ==
  LET at == [d EXCEPT !.pos = @ + 1]
  IN  IF e = "h1" THEN NewStep(at)
      ELSE IF d.step = 0 THEN at
      ELSE IF e \in {"code", "console"} THEN NewCode(at, e = "console")
      ELSE NewOther(at)

InitParse ==
  /\ op = "parse"
  /\ mpc = "walk"
  /\ src \in Documents
  /\ ds = NewDocState
  /\ call = IdleCall
  /\ log = <<>>
  /\ delay = 0
  /\ ret = NoValue
  /\ reqs = <<>>
  /\ meta = NoValue
  /\ InitBatch

\* the parser handles the next top-level element
ParseNext ==
  /\ op = "parse" /\ mpc = "walk"
  /\ ds.pos < Len(src)
  /\ ds' = ParseElement(ds, src[ds.pos + 1])
  /\ UNCHANGED <<op, mpc, call, log, delay, ret, src, reqs, meta>>
  /\ UNCHANGED batchVars

NextParse == ParseNext

SpecParse == InitParse /\ [][NextParse]_vars

\* ----------------------------------------------------- the whole program
InitBatchOps == InitSlurp \/ InitImages

NextBatchOps == NextSlurp \/ NextImages

\* the two batch operations
SpecBatch == InitBatchOps /\ [][NextBatchOps]_vars

Init ==
  \/ InitRetryGet
  \/ InitSlurp
  \/ InitImages
  \/ InitFetch
  \/ InitGdocID
  \/ InitDuration
  \/ InitParse

Next ==
  \/ NextRetryGet
  \/ NextSlurp
  \/ NextImages
  \/ NextFetch
  \/ NextGdocID
  \/ NextDuration
  \/ NextParse

Spec == Init /\ [][Next]_vars

\* ------------------------------------------------ claims about retryGet
\* the positions of the log that are GETs
GetAt(k) == k \in 1..Len(log) /\ log[k].ev = "get"

\* the number of GETs in the log
NumGets == Cardinality({k \in 1..Len(log) : log[k].ev = "get"})

\* the GET at k is the last thing the call did
EndsCall(k) == k = Len(log) /\ call.pc = "done"

\* after the GET at k the next attempt is issued, or is about to be
NextAttempt(k) ==
  IF k = Len(log)
    THEN call.pc = "loop" /\ call.i = log[k].i + 1
    ELSE \E j \in (k+1)..Len(log) : log[j].ev = "get" /\ log[j].i = log[k].i + 1

\* the body of the response carries a rate-limit reason
RateLimited(out) == out.reason \in {"rateLimitExceeded", "userRateLimitExceeded"}

\* a failure the claims call retryable: a network error, a rate-limit
\* response, a 5xx
RetryableFailure(out) ==
  \/ out.neterr
  \/ ~out.neterr /\ out.status # 200 /\ RateLimited(out)
  \/ ~out.neterr /\ out.status >= 500

Returned == mpc = "done"

\* C1 (safety part): the call issues at most n+1 GETs, what it returns is a
\* response or an error, and when every attempt was a retryable failure it
\* returns the "failed after n retries" error after exactly n+1 GETs.
C1_Bounded ==
  /\ call.gets = NumGets
  /\ call.gets <= call.n + 1
  /\ Returned => ret.kind \in {"resp", "err"}
  /\ (call.pc = "done" /\ \A k \in 1..Len(log) : GetAt(k) => RetryableFailure(log[k].out))
       => /\ call.res = ExhaustedErr(call.url, call.n)
          /\ call.gets = call.n + 1

C2_First200Returned ==
  \A k \in 1..Len(log) :
    (GetAt(k) /\ ~log[k].out.neterr /\ log[k].out.status = 200)
      => /\ EndsCall(k)
         /\ call.res = Resp(log[k].i, 200)
         /\ call.gets = log[k].i + 1
         /\ Returned => ret = Resp(log[k].i, 200)

\* outcomes 500, 500, 200: the third attempt's response after exactly 3 GETs
C2_Witness ==
  /\ Returned /\ call.n >= 2 /\ call.gets = 3 /\ ret = Resp(2, 200)
  /\ \A k \in 1..Len(log) :
       GetAt(k) => /\ ~log[k].out.neterr /\ ~RateLimited(log[k].out)
                   /\ log[k].out.status = (IF log[k].i < 2 THEN 500 ELSE 200)

\* C3: a response that is no rate-limit payload and has a non-2xx status
\* below 500 ends the call on that very attempt with the non-retryable status
\* error: no sleep and no GET follows it.
C3_ClientErrorFailsAtOnce ==
  \A k \in 1..Len(log) :
    (/\ GetAt(k) /\ ~log[k].out.neterr /\ ~RateLimited(log[k].out)
     /\ log[k].out.status \notin 200..299 /\ log[k].out.status < 500)
      => /\ EndsCall(k)
         /\ call.res = StatusErr(call.url, log[k].out.status)
         /\ call.gets = log[k].i + 1
         /\ call.sleeps = log[k].i

\* a 404 on the first attempt: exactly one GET, no sleep
C3_Witness ==
  /\ Returned /\ call.n >= 1 /\ call.gets = 1 /\ call.sleeps = 0
  /\ Len(log) = 1 /\ log[1].out.status = 404
  /\ ret = StatusErr(TestURL, 404)

\* the call never ends in the status error on a GET that failed at the network level
NetErrNotFatal ==
  \A k \in 1..Len(log) :
    (GetAt(k) /\ log[k].out.neterr)
      => /\ log[k].i < call.n => NextAttempt(k)
         /\ ~(EndsCall(k) /\ call.res # ExhaustedErr(call.url, call.n))

\* attempt i failed at the network level and was the last thing done so far
NetErrPending(i) ==
  /\ Len(log) > 0 /\ GetAt(Len(log)) /\ log[Len(log)].i = i
  /\ log[Len(log)].out.neterr /\ i < call.n

\* C4: a network-level failure of attempt i < n is always retried (attempt
\* i+1 is issued) and never by itself produces the non-retryable status error.
C4_NetErrRetried ==
  /\ [](NetErrNotFatal)
  /\ \A i \in 0..MaxRetries : NetErrPending(i) ~> (call.gets >= i + 2)

C4_Witness ==
  /\ Len(log) >= 2 /\ GetAt(1) /\ log[1].out.neterr
  /\ call.gets = 2 /\ call.n >= 1

\* C5: a non-200 response with a rate-limit reason is retried whatever its
\* status while attempts remain, and never ends the call in the status error.
C5_RateLimitRetried ==
  \A k \in 1..Len(log) :
    (GetAt(k) /\ ~log[k].out.neterr /\ log[k].out.status # 200 /\ RateLimited(log[k].out))
      => /\ log[k].i < call.n => NextAttempt(k)
         /\ ~(EndsCall(k) /\ call.res # ExhaustedErr(call.url, call.n))

\* a rate-limited 404 on the first attempt is followed by a second GET
C5_Witness ==
  /\ Len(log) >= 2 /\ GetAt(1) /\ log[1].out.status = 404 /\ RateLimited(log[1].out)
  /\ call.gets >= 2

Dispatched == nw > 0 /\ spawned = Active

\* the batch operation has returned out of its collecting loop
BatchReturned == mpc = "done" /\ Dispatched

\* the URL of the unit of work of worker w
UnitOf(w) == IF op = "downloadImages" THEN ImageURL(w) ELSE UnitURL(w)

\* C7: a batch operation (the imports of slurpCodelab, downloadImages) succeeds
\* if and only if every worker reports success: an error some worker reported
\* is never masked by a success, the error returned is one a worker reported,
\* and on success exactly one result per worker was collected.
C7_AllOrNothing ==
  BatchReturned =>
    /\ ~IsErr(ret) <=> \A w \in Active : Sent(w) = Nil
    /\ ~IsErr(ret) => taken = nw /\ ch = <<>>
    /\ ~IsErr(ret) => ret = (IF op = "slurpCodelab" THEN [kind |-> "codelab"] ELSE Nil)
    /\ IsErr(ret) => \E w \in Active : Sent(w) = ret

\* two images, one failing: the error is returned although the success was
\* sent, and received first
C7_Witness ==
  /\ op = "downloadImages" /\ BatchReturned /\ nw = 2
  /\ IsErr(ret) /\ taken = 1
  /\ Cardinality({w \in Active : Sent(w) = Nil}) = 1
  /\ Cardinality({w \in Active : IsErr(Sent(w))}) = 1

\* C8: in slurpCodelab every dispatched import worker's send completes
\* normally, also after main has returned on an earlier error: it neither
\* blocks nor faults on a channel main has closed.
C8_ImportSendsComplete ==
  /\ ~panicked
  /\ \A w \in Workers : wpc[w] = "send" => CanSend(w)

\* capacity = number of workers, at most one send per worker, no send blocks
ImagesNeverBlock ==
  /\ mpc # "start" /\ nw > 0 /\ (mpc = "spawn" \/ spawned # {}) => chCap = nw
  /\ \A w \in Workers : wpc[w] = "send" => CanSend(w)
  /\ Len(ch) + taken + (IF IsErr(ret) /\ Dispatched THEN 1 ELSE 0)
       = Cardinality({w \in Workers : wpc[w] = "done"})
  /\ Len(ch) <= chCap

\* C9: in downloadImages the results channel has the capacity of the number
\* of workers and each worker sends exactly one result, so no send ever
\* blocks and every worker terminates, also when main stops reading after
\* the first error.
C9_ImageWorkersTerminate ==
  /\ [](ImagesNeverBlock)
  /\ \A w \in Workers : (w \in spawned) ~> (wpc[w] = "done")

\* main has returned on the first error and the results it did not read
\* were sent all the same
C9_Witness ==
  /\ op = "downloadImages" /\ BatchReturned /\ IsErr(ret) /\ nw = 2
  /\ \A w \in Active : wpc[w] = "done"
  /\ taken = 0 /\ Len(ch) = 1

\* C10: every error a worker reports on the results channel names the URL
\* of that worker's unit of work, for import workers and image workers
\* alike, whichever step of the worker failed.
C10_ErrorsNameURL ==
  \A w \in Workers :
    (wpc[w] \in {"send", "done"} /\ IsErr(wval[w])) => Mentions(wval[w], UnitOf(w))

\* worker w has finished its work with success
Succeeded(w) == wpc[w] \in {"send", "done", "panicked"} /\ wval[w] = Nil

\* C11: results are attributed by identity, not by completion order.  The
\* nodes of an import are written by the worker of that import only, and are
\* the fragment of that import's own URL, so that on success of slurpCodelab
\* every import holds the fragment of its own URL; the file of an image is
\* written by the worker of that image only, from that image's own URL.
C11_ResultsByIdentity ==
  /\ \A w \in Workers :
       nodes[w] # NoNodes => nodes[w] = Frag(UnitURL(w)) /\ Succeeded(w)
  /\ \A w \in Workers :
       (op = "slurpCodelab" /\ Succeeded(w)) => nodes[w] = Frag(UnitURL(w))
  /\ (op = "slurpCodelab" /\ mpc = "done" /\ ret.kind = "codelab")
       => \A w \in Active : nodes[w] = Frag(UnitURL(w))
  /\ \A f \in files : \E w \in Active : f = Written(w) /\ Succeeded(w)
  /\ \A w \in Workers :
       (op = "downloadImages" /\ Succeeded(w)) => Written(w) \in files

\* two imports resolved, the second one first: each holds its own fragment
C11_Witness ==
  /\ op = "slurpCodelab" /\ nw = 2 /\ spawned = Active
  /\ wpc[2] = "done" /\ wpc[1] = "run"
  /\ nodes[2] = Frag(UnitURL(2)) /\ nodes[1] = NoNodes

\* slurpCodelab has returned the codelab
SlurpSucceeded == op = "slurpCodelab" /\ mpc = "done" /\ ret.kind = "codelab"

\* every import worker has sent its nil, main has received it, and the
\* nodes of every import are set
AllImportsIn ==
  /\ \A w \in Active : wpc[w] = "done" /\ wval[w] = Nil /\ nodes[w] # NoNodes
  /\ taken = nw /\ ch = <<>>

\* C20: when slurpCodelab returns a codelab, every import worker has
\* delivered its result and finished and every ImportNode is populated, and
\* no ImportNode is written after the return.
C20_SuccessAfterAllWorkers ==
  /\ [](SlurpSucceeded => AllImportsIn)
  /\ [][SlurpSucceeded => nodes' = nodes]_vars

\* a codelab of two imports has been returned
C20_Witness ==
  /\ SlurpSucceeded /\ nw = 2 /\ chClosed
  /\ \A w \in Active : wpc[w] = "done"

\* the position in the log of the latest sleep, 0 when there is none
LastSleep ==
  IF \E k \in 1..Len(log) : log[k].ev = "sleep"
    THEN CHOOSE k \in 1..Len(log) :
           log[k].ev = "sleep" /\ \A j \in (k+1)..Len(log) : log[j].ev # "sleep"
    ELSE 0

\* The sleeps of the call are where the claim puts them: none before the
\* first attempt, one right before each later attempt and bearing its
\* number, none after the attempt that ends the call.
SleepsBetweenAttempts ==
  /\ Len(log) > 0 => log[1].ev = "get" /\ log[1].i = 0
  /\ \A k \in 1..Len(log) :
       log[k].ev = "sleep" =>
         /\ log[k].i >= 1
         /\ k > 1 /\ log[k-1].ev = "get" /\ log[k-1].i = log[k].i - 1
         /\ k < Len(log) /\ log[k+1].ev = "get" /\ log[k+1].i = log[k].i
  /\ \A k \in 2..Len(log) :
       (log[k].ev = "get" /\ log[k].i >= 1) => log[k-1].ev = "sleep"
  /\ call.pc = "done" => Len(log) > 0 /\ log[Len(log)].ev = "get"
  /\ call.sleeps = (IF call.gets = 0 THEN 0 ELSE call.gets - 1)
  /\ LastSleep = 0 => delay = 0

\* C17 as stated: the sleep before attempt i >= 1 lasts at least 2^i and
\* less than 2^i + 1 seconds; no sleep precedes the first attempt and none
\* follows the attempt that ends the call.
C17_DelayBelowNextSecond ==
  /\ SleepsBetweenAttempts
  /\ LastSleep > 0 =>
       /\ delay >= (2 ^ log[LastSleep].i) * Ticks
       /\ delay < (2 ^ log[LastSleep].i + 1) * Ticks

\* C17, amended: the sleep before attempt i >= 1 lasts at least 2^i and at
\* most 2^i + 1 seconds; no sleep precedes the first attempt and none
\* follows the attempt that ends the call.
C17_DelayWithinSecond ==
  /\ SleepsBetweenAttempts
  /\ LastSleep > 0 =>
       /\ delay >= (2 ^ log[LastSleep].i) * Ticks
       /\ delay <= (2 ^ log[LastSleep].i + 1) * Ticks

\* the sleep before attempt 1 lasted exactly 3 seconds: the sum of 2 and
\* the largest jitter was rounded up
C17_Witness ==
  /\ LastSleep > 0 /\ log[LastSleep].i = 1
  /\ delay = 3 * Ticks
  /\ call.gets = 2 /\ call.sleeps = 1

\* ---------------------------------------------------- claims about fetch
\* fetch(name) was called (and not fetchRemote by slurpFragment)
ViaFetch == op = "fetch" /\ ~src.nometa

\* what fetch returns is the error of os.Open
IsOpenErr(v) == IsErr(v) /\ v.msg[1] = Lit("open")

\* C12: when the identifier names an existing local path (os.Stat finds
\* it), fetch opens it locally and returns a Markdown-typed resource with the
\* file's modification time, or the error of the open without falling back
\* to the network; no retryGet call, hence no HTTP request and no backoff
\* sleep, is made on that path.
C12_LocalPathNoNetwork ==
  (ViaFetch /\ src.stat = "ok") =>
    /\ reqs = <<>> /\ meta = NoValue
    /\ mpc \in {"fetch", "done"}
    /\ ~panicked
    /\ mpc = "done" =>
         IF src.open = "ok"
           THEN ret = [kind |-> "resource", typ |-> "md", mod |-> FileModTime]
           ELSE IsOpenErr(ret)

\* an existing file was opened and returned
C12_Witness ==
  /\ ViaFetch /\ src.stat = "ok" /\ src.open = "ok" /\ mpc = "done"
  /\ ret.kind = "resource" /\ ret.typ = "md" /\ reqs = <<>>

C14_MetadataBeforeExport ==
  ViaFetch =>
    /\ \A k \in 1..Len(reqs) :
         reqs[k].url.kind \in {"exportlink", "export"} =>
           /\ k = 2
           /\ reqs[1] = [url |-> MetaURL(src.name), n |-> 7, res |-> reqs[1].res]
           /\ reqs[1].res.kind = "resp"
           /\ meta # NoValue
           /\ meta.mime = "application/vnd.google-apps.document"
           /\ meta.link # NoLink
           /\ reqs[k].url = meta.link /\ reqs[k].n = 7
    /\ (meta # NoValue /\ mpc = "done"
          /\ meta.mime # "application/vnd.google-apps.document")
         => /\ IsErr(ret) /\ Len(reqs) = 1
            /\ \E j \in 1..Len(ret.msg) : ret.msg[j] = Lit("invalid mime type")
    /\ (meta # NoValue /\ mpc = "done"
          /\ meta.mime = "application/vnd.google-apps.document"
          /\ meta.link = NoLink)
         => /\ IsErr(ret) /\ Len(reqs) = 1
            /\ \E j \in 1..Len(ret.msg) : ret.msg[j] = Lit("no export link")
    /\ (mpc = "done" /\ ret.kind = "resource" /\ ret.typ = "gdoc")
         => /\ Len(reqs) = 2 /\ reqs[2].res.kind = "resp"
            /\ ret.mod = meta.modified /\ ret.mod = MetaModified

\* the metadata named a folder: an error, and the metadata GET was the only request
C14_Witness ==
  /\ ViaFetch /\ mpc = "done" /\ meta # NoValue
  /\ meta.mime = driveMimeFolder /\ meta.link # NoLink
  /\ IsErr(ret) /\ Len(reqs) = 1

\* C15: with nometa true fetchDriveFile requests the export endpoint only,
\* by a single retryGet with 7 retries, never the metadata endpoint, and the
\* resource it returns has the zero modification time and the hosted-document
\* source type.
C15_NoMetaExportOnly ==
  (op = "fetch" /\ src.nometa /\ src.name.kind # "malformed"
     /\ src.name.host \in {"", "docs.google.com"}) =>
    /\ Len(reqs) <= 1
    /\ \A k \in 1..Len(reqs) :
         reqs[k].url = ExportURL(src.name) /\ reqs[k].n = 7
           /\ reqs[k].url.kind # "meta"
    /\ meta = NoValue
    /\ (mpc = "done" /\ ~IsErr(ret))
         => /\ Len(reqs) = 1
            /\ ret = [kind |-> "resource", typ |-> "gdoc", mod |-> ZeroTime]

\* a fragment of the document host was exported without its metadata
C15_Witness ==
  /\ op = "fetch" /\ src.nometa /\ src.name.host = "docs.google.com"
  /\ mpc = "done" /\ ret.kind = "resource" /\ ret.mod = ZeroTime
  /\ Len(reqs) = 1 /\ reqs[1].url.kind = "export"

\* ---------------------------------------------------- claims about gdocID
\* the string s holds the marker
HasMarker(s) == \E i \in 0..(Len(s) - Len(Marker)) : SubSeq(s, i + 1, i + Len(Marker)) = Marker

\* the string s holds a path separator
HasSlash(s) == \E k \in 1..Len(s) : s[k] = "/"

\* the pieces of s between its first marker and the next separator (or its end)
RECURSIVE UpToSlash(_)
UpToSlash(s) ==
  IF s = <<>> \/ Head(s) = "/" THEN <<>> ELSE <<Head(s)>> \o UpToSlash(Tail(s))

RECURSIVE AfterMarker(_)
AfterMarker(s) ==
  IF Len(s) < Len(Marker) THEN <<>>
  ELSE IF SubSeq(s, 1, Len(Marker)) = Marker THEN SubSeq(s, Len(Marker) + 1, Len(s))
  ELSE AfterMarker(Tail(s))

\* C16: for every string that holds the marker '/document/d/', gdocID
\* returns exactly the path segment between the first marker and the next
\* '/', so that the result holds neither the marker nor a '/'; a string with
\* no marker and no '/' is returned unchanged.
C16_GdocIDSegment ==
  (op = "gdocID" /\ mpc = "done") =>
    /\ HasMarker(src) =>
         /\ ret.id = UpToSlash(AfterMarker(src))
         /\ ~HasSlash(ret.id)
         /\ ~HasMarker(ret.id)
    /\ (~HasMarker(src) /\ ~HasSlash(src)) => ret.id = src

\* ------------------------------------------------ claims about the parser
\* x seconds in whole minutes, rounded up
CeilMinutes(x) == IF x % 60 = 0 THEN x \div 60 ELSE x \div 60 + 1

\* C18: a duration annotation with the value M:SS yields M + ceil(SS/60)
\* minutes and one with the bare value M yields M minutes, whatever the case
\* of the keyword and with or without spaces around the colon or after the
\* value.
C18_DurationRoundsUp ==
  (op = "parseDuration" /\ mpc = "done" /\ src.keyword \in Keywords /\ src.colon) =>
    ret.minutes = (IF src.ss >= 0 THEN src.m + CeilMinutes(src.ss) ELSE src.m)

\* "DURATION : 1:30 " yields 2 minutes
C18_Witness ==
  /\ op = "parseDuration" /\ mpc = "done"
  /\ src.text = <<Word("DURATION"), Space, Colon, Space, Number(1), Colon,
                  Number(30), Space>>
  /\ ret.minutes = 2

\* the code and console blocks emitted so far for step s, up to position k of out
BlocksUpTo(s, k) ==
  Cardinality({j \in 1..k : ds.out[j].node = "code" /\ ds.out[j].step = s})

\* C19: within one step the code and console blocks have the block indices
\* 1, 2, 3, ... in document order: the k-th code or console block of a step
\* has index k whatever lies between the blocks, one counter serves code and
\* console blocks, and it starts over at 1 in each new step.
C19_BlockIndexPerStep ==
  op = "parse" =>
    \A k \in 1..Len(ds.out) :
      ds.out[k].node = "code" =>
        /\ ds.out[k].step >= 1
        /\ ds.out[k].block = BlocksUpTo(ds.out[k].step, k)

\* a code and a console block in step 1, then the first code block of step 2
C19_Witness ==
  /\ op = "parse" /\ src = <<"h1", "code", "console", "h1", "code">>
  /\ ds.pos = 5 /\ Len(ds.out) = 3
  /\ ds.out[1].block = 1 /\ ~ds.out[1].console
  /\ ds.out[2].block = 2 /\ ds.out[2].console
  /\ ds.out[3].block = 1 /\ ds.out[3].step = 2

\* C21: fetch ends with either a resource or an error whatever os.Stat and
\* os.Open yield: it never faults, what it returns is one of the two, and
\* when the stat fails with an error other than not-exist it neither goes
\* remote nor uses the file info it does not have.
C21_FetchEndsInValue ==
  ViaFetch =>
    /\ ~panicked
    /\ mpc # "panicked"
    /\ mpc = "done" => ret.kind \in {"resource", "err"}
    /\ src.stat = "error" =>
         /\ reqs = <<>> /\ meta = NoValue
         /\ mpc \in {"fetch", "done"}
         /\ mpc = "done" => IsOpenErr(ret)

====
